---------------------------- MODULE Spec2Model ----------------------------
(***************************************************************************)
(* LeMond Revolution CSV -> TCX converter (lemondcsv.py, the Power Pilot   *)
(* script, and lemondcsv_gt.py, the GT script), as a state machine.        *)
(*                                                                         *)
(* Text is a sequence of one-character strings, so that strip, split,      *)
(* startswith, slicing, int() and float() are computed on the characters.  *)
(* A Python float is modelled by the exact rational it approximates: a     *)
(* pair [n, d] in lowest terms.                                            *)
(***************************************************************************)
EXTENDS Integers, Sequences, FiniteSets, TLC

(***************************************************************************)
(* Bounds of the model.                                                    *)
(***************************************************************************)
\* most data rows the csv reader yields in one run
MaxRows == 2

(***************************************************************************)
(* Results of calls that may raise.                                        *)
(***************************************************************************)
Ok(v) == [ok |-> TRUE, v |-> v]

Raise(e) == [ok |-> FALSE, v |-> e]

(***************************************************************************)
(* Exact rationals, standing for Python floats.                            *)
(***************************************************************************)
Abs(x) == IF x < 0 THEN -x ELSE x

RECURSIVE GCD(_, _)
GCD(a, b) == IF b = 0 THEN a ELSE GCD(b, a % b)

Rat(n, d) ==
    LET g == GCD(Abs(n), Abs(d))
        s == IF d < 0 THEN -1 ELSE 1
    IN  [n |-> (s * n) \div g, d |-> (s * d) \div g]

RatAdd(a, b) == Rat(a.n * b.d + b.n * a.d, a.d * b.d)

RatMul(a, b) == Rat(a.n * b.n, a.d * b.d)

RatDiv(a, b) == Rat(a.n * b.d, a.d * b.n)

RatLess(a, b) == a.n * b.d < b.n * a.d

RatLeq(a, b) == a.n * b.d <= b.n * a.d

FromInt(i) == Rat(i, 1)

(***************************************************************************)
(* Python string methods, on character sequences.                          *)
(***************************************************************************)
Whitespace == {" "}

Digits == {"0", "1", "2", "3", "4", "5", "6", "7", "8", "9"}

DigitVal(c) ==
    CASE c = "0" -> 0 [] c = "1" -> 1 [] c = "2" -> 2 [] c = "3" -> 3
      [] c = "4" -> 4 [] c = "5" -> 5 [] c = "6" -> 6 [] c = "7" -> 7
      [] c = "8" -> 8 [] c = "9" -> 9

RECURSIVE lstrip(_)
lstrip(s) ==
    IF s = <<>> THEN s
    ELSE IF Head(s) \in Whitespace THEN lstrip(Tail(s)) ELSE s

RECURSIVE rstrip(_)
rstrip(s) ==
    IF s = <<>> THEN s
    ELSE IF s[Len(s)] \in Whitespace THEN rstrip(SubSeq(s, 1, Len(s) - 1)) ELSE s

\* str.strip()
strip(s) == rstrip(lstrip(s))

\* str.split(sep) for a one-character separator
RECURSIVE split(_, _)
split(s, sep) ==
    IF \A i \in 1..Len(s) : s[i] # sep THEN <<s>>
    ELSE LET i == CHOOSE k \in 1..Len(s) :
                      s[k] = sep /\ \A j \in 1..(k - 1) : s[j] # sep
         IN  <<SubSeq(s, 1, i - 1)>> \o split(SubSeq(s, i + 1, Len(s)), sep)

\* str.startswith(prefix)
startswith(s, prefix) ==
    Len(s) >= Len(prefix) /\ SubSeq(s, 1, Len(prefix)) = prefix

\* s[k:] for k >= 0
SliceFrom(s, k) == SubSeq(s, k + 1, Len(s))

\* "{0:>05s}".format(s): right-aligned in width 5, filled with "0"
RECURSIVE PadLeft5(_)
PadLeft5(s) == IF Len(s) >= 5 THEN s ELSE PadLeft5(<<"0">> \o s)

IsDigits(s) == s # <<>> /\ \A i \in 1..Len(s) : s[i] \in Digits

RECURSIVE DigitsVal(_)
DigitsVal(s) ==
    IF s = <<>> THEN 0
    ELSE 10 * DigitsVal(SubSeq(s, 1, Len(s) - 1)) + DigitVal(s[Len(s)])

RECURSIVE Pow10(_)
Pow10(k) == IF k = 0 THEN 1 ELSE 10 * Pow10(k - 1)

\* the sign of a numeric literal and the text after it
Sign(t) == IF t # <<>> /\ Head(t) = "-" THEN -1 ELSE 1

Unsigned(t) == IF t # <<>> /\ Head(t) \in {"-", "+"} THEN Tail(t) ELSE t

\* int(s): surrounding whitespace, an optional sign, decimal digits
int(s) ==
    LET t == strip(s)
        u == Unsigned(t)
    IN  IF IsDigits(u) THEN Ok(Sign(t) * DigitsVal(u)) ELSE Raise("ValueError")

\* float(s), for decimal literals: surrounding whitespace, an optional sign,
\* digits with at most one point and at least one digit
float(s) ==
    LET t == strip(s)
        u == Unsigned(t)
        parts == split(u, ".")
        ip == parts[1]
        fp == IF Len(parts) = 2 THEN parts[2] ELSE <<>>
        wellFormed ==
            /\ Len(parts) <= 2
            /\ ip \o fp # <<>>
            /\ \A i \in 1..Len(ip) : ip[i] \in Digits
            /\ \A i \in 1..Len(fp) : fp[i] \in Digits
    IN  IF wellFormed
        THEN Ok(Rat(Sign(t) * DigitsVal(ip \o fp), Pow10(Len(fp))))
        ELSE Raise("ValueError")

(***************************************************************************)
(* Calendar arithmetic behind time.strptime, time.mktime and time.gmtime.  *)
(***************************************************************************)
\* the year time.localtime() reports when the Power Pilot script runs
CurrentYear == 2013

\* seconds the converting machine's local time is ahead of UTC
LocalUTCOffset == 32400

IsLeap(y) == (y % 4 = 0 /\ y % 100 # 0) \/ y % 400 = 0

DaysInMonth(y, m) ==
    IF m = 2 THEN (IF IsLeap(y) THEN 29 ELSE 28)
    ELSE IF m \in {4, 6, 9, 11} THEN 30 ELSE 31

\* days from 1970-01-01 to the civil date y-m-d
DaysFromCivil(y, m, d) ==
    LET yy  == IF m <= 2 THEN y - 1 ELSE y
        era == yy \div 400
        yoe == yy - era * 400
        mp  == IF m > 2 THEN m - 3 ELSE m + 9
        doy == (153 * mp + 2) \div 5 + d - 1
        doe == yoe * 365 + yoe \div 4 - yoe \div 100 + doy
    IN  era * 146097 + doe - 719468

\* the civil date of a day count from 1970-01-01
CivilFromDays(z0) ==
    LET z   == z0 + 719468
        era == z \div 146097
        doe == z - era * 146097
        yoe == (doe - doe \div 1460 + doe \div 36524 - doe \div 146096) \div 365
        doy == doe - (365 * yoe + yoe \div 4 - yoe \div 100)
        mp  == (5 * doy + 2) \div 153
        d   == doy - (153 * mp + 2) \div 5 + 1
        m   == IF mp < 10 THEN mp + 3 ELSE mp - 9
        y   == yoe + era * 400 + (IF m <= 2 THEN 1 ELSE 0)
    IN  [Y |-> y, m |-> m, d |-> d]

\* one numeric strptime field of one or two digits within lo..hi
TimeField(s, lo, hi) ==
    IF IsDigits(s) /\ Len(s) <= 2 /\ DigitsVal(s) >= lo /\ DigitsVal(s) <= hi
    THEN Ok(DigitsVal(s)) ELSE Raise("ValueError")

\* time.strptime(tstr, '%H:%M:%S')
strptimeHMS(tstr) ==
    LET parts == split(tstr, ":")
        h == TimeField(parts[1], 0, 23)
        m == TimeField(parts[2], 0, 59)
        s == TimeField(parts[3], 0, 61)
    IN  IF Len(parts) = 3 /\ h.ok /\ m.ok /\ s.ok
        THEN Ok([H |-> h.v, M |-> m.v, S |-> s.v])
        ELSE Raise("ValueError")

\* time.strptime(tstr, '%H:%M')
strptimeHM(tstr) ==
    LET parts == split(tstr, ":")
        h == TimeField(parts[1], 0, 23)
        m == TimeField(parts[2], 0, 59)
    IN  IF Len(parts) = 2 /\ h.ok /\ m.ok
        THEN Ok([H |-> h.v, M |-> m.v, S |-> 0])
        ELSE Raise("ValueError")

\* the date part of '%Y/%m/%d' with the year given: dstr is "MM/DD"
strptimeMD(year, dstr) ==
    LET parts == split(dstr, "/")
        m == TimeField(parts[1], 1, 12)
        d == TimeField(parts[2], 1, 31)
    IN  IF Len(parts) = 2 /\ m.ok /\ d.ok /\ d.v <= DaysInMonth(year, m.v)
        THEN Ok([Y |-> year, m |-> m.v, d |-> d.v])
        ELSE Raise("ValueError")

\* '%y%m%d' on a six-digit date: %y below 69 is 20yy, otherwise 19yy
strptimeYMD(dstr) ==
    LET yy == DigitsVal(SubSeq(dstr, 1, 2))
        y  == IF yy < 69 THEN 2000 + yy ELSE 1900 + yy
        m  == DigitsVal(SubSeq(dstr, 3, 4))
        d  == DigitsVal(SubSeq(dstr, 5, 6))
    IN  IF Len(dstr) = 6 /\ IsDigits(dstr) /\ m >= 1 /\ m <= 12
           /\ d >= 1 /\ d <= DaysInMonth(y, m)
        THEN Ok([Y |-> y, m |-> m, d |-> d])
        ELSE Raise("ValueError")

\* time.mktime(t): local calendar fields to epoch seconds
mktime(date, clock) ==
    DaysFromCivil(date.Y, date.m, date.d) * 86400
        + clock.H * 3600 + clock.M * 60 + clock.S - LocalUTCOffset

(***************************************************************************)
(* class Point                                                             *)
(***************************************************************************)
\* csvrow[i], Python's 0-based index
Field(csvrow, i) == csvrow[i + 1]

\* Point.timeToSecs
timeToSecs(tstr) ==
    LET t == strptimeHMS(tstr)
    IN  IF t.ok THEN Ok(t.v.H * 3600 + t.v.M * 60 + t.v.S) ELSE t

\* the conversion Point.__init__ applies to field i
Convert(i, text) ==
    CASE i = 0 -> timeToSecs(text)
      [] i \in {1, 2} -> float(text)
      [] i \in 3..7 -> int(text)
      [] i = 8 -> Ok(text)

\* the first field, in the order Point.__init__ reads them, that raises
FailingFields(csvrow) ==
    {i \in 0..8 : i >= Len(csvrow) \/ ~Convert(i, Field(csvrow, i)).ok}

Min(S) == CHOOSE x \in S : \A y \in S : x <= y

\* Point.__init__: fields beyond the ninth are never read
Point(csvrow) ==
    IF FailingFields(csvrow) # {}
    THEN LET i == Min(FailingFields(csvrow))
         IN  IF i >= Len(csvrow) THEN Raise("IndexError") ELSE Raise("ValueError")
    ELSE Ok([secs     |-> Convert(0, Field(csvrow, 0)).v,
             speed    |-> Convert(1, Field(csvrow, 1)).v,
             dist     |-> Convert(2, Field(csvrow, 2)).v,
             power    |-> Convert(3, Field(csvrow, 3)).v,
             heart    |-> Convert(4, Field(csvrow, 4)).v,
             cadence  |-> Convert(5, Field(csvrow, 5)).v,
             calories |-> Convert(6, Field(csvrow, 6)).v,
             torque   |-> Convert(7, Field(csvrow, 7)).v,
             target   |-> Convert(8, Field(csvrow, 8)).v])

\* the column names Point.parsePointHdr expects from the Power Pilot; a name
\* is compared whole, so each is written as text of one element
ExpectedColsPP ==
    << <<"TIME">>, <<"SPEED">>, <<"DIST">>, <<"POWER">>, <<"HEART RATE">>,
       <<"CADENCE">>, <<"CALORIES">>, <<"TORQUE">>, <<"TARGET">> >>

\* the column names Point.parsePointHdr expects from the GT
ExpectedColsGT ==
    << <<"secs">>, <<"SPEED">>, <<"DIST">>, <<"POWER">>, <<"heart">>,
       <<"cadence">>, <<"CALORIES">>, <<"TORQUE">>, <<"target">> >>

ExpectedCols(v) == IF v = "PP" THEN ExpectedColsPP ELSE ExpectedColsGT

\* parsePointHdr matching the names as a set, in any order
parsePointHdr_AnyOrder(v, csvrow) ==
    IF Len(csvrow) # 9 THEN Raise("Exception")
    ELSE IF {ExpectedCols(v)[i] : i \in 1..9} # {csvrow[i] : i \in 1..9}
         THEN Raise("Exception")
    ELSE Ok(TRUE)

\* Point.parsePointHdr
parsePointHdr(v, csvrow) ==
    IF Len(csvrow) # 9 THEN Raise("Exception")
    ELSE IF ExpectedCols(v) # csvrow THEN Raise("Exception")
    ELSE Ok(TRUE)

(***************************************************************************)
(* class Revolution: the device header                                     *)
(***************************************************************************)
\* a supported set that also lets firmware 64 through
SUPPORTED_FIRMWARE_PP_Wider == {63, 64}

SUPPORTED_FIRMWARE_PP == {63}

SUPPORTED_FIRMWARE_GT == {<<"0", ".", "3", "1">>}

TextLeMond == <<"L", "e", "M", "o", "n", "d">>

TextRevolution == <<"R", "e", "v", "o", "l", "u", "t", "i", "o", "n">>

TextLeMondRevolution == TextLeMond \o <<" ">> \o TextRevolution

\* Revolution.parseInt
parseInt(str, tag) ==
    LET list == split(str, " ")
    IN  IF list[1] # tag THEN Raise("Exception")
        ELSE IF Len(list) < 2 THEN Raise("IndexError")
        ELSE int(list[2])

\* Revolution.parseTime of the Power Pilot script: the year is the current one
parseTimePP(dstr, tstr) ==
    LET d == strptimeMD(CurrentYear, dstr)
        t == strptimeHMS(tstr)
    IN  IF d.ok /\ t.ok THEN Ok(mktime(d.v, t.v)) ELSE Raise("ValueError")

\* Revolution.parseTime of the GT script: dstr is YYMMDD and tstr is HH:MM
parseTimeGT(dstr, tstr) ==
    LET d == strptimeYMD(dstr)
        t == strptimeHM(tstr)
    IN  IF d.ok /\ t.ok THEN Ok(mktime(d.v, t.v)) ELSE Raise("ValueError")

\* the tagged fields of the Power Pilot header, in the order they are parsed:
\* <<index, tag>>, the date and time (fields 4 and 5) between HW and Alt
TagsPP ==
    << <<2, <<"F", "W">> >>, <<3, <<"H", "W">> >>, <<6, <<"A", "l", "t">> >>,
       <<7, <<"T", "e", "m", "p">> >>, <<8, <<"H", "u", "m">> >>,
       <<9, <<"T", "i", "r", "e">> >>, <<10, <<"C", "F">> >> >>

TaggedPP(csvrow, k) == parseInt(Field(csvrow, TagsPP[k][1]), TagsPP[k][2])

\* an identity test that looks at the make only
IdentityPP_MakeOnly(csvrow) == strip(Field(csvrow, 0)) = TextLeMond

\* the identity test of the Power Pilot script, on the stripped make and model
IdentityPP(csvrow) ==
    <<strip(Field(csvrow, 0)), strip(Field(csvrow, 1))>>
        = <<TextLeMond, TextRevolution>>

\* the identity test of the GT script, on the stripped combined field
IdentityGT(csvrow) == strip(Field(csvrow, 0)) = TextLeMondRevolution

\* Revolution.parseDeviceHdr of the Power Pilot script
parseDeviceHdrPP(csvrow) ==
    LET make  == strip(Field(csvrow, 0))
        model == strip(Field(csvrow, 1))
        fw    == TaggedPP(csvrow, 1)
        hw    == TaggedPP(csvrow, 2)
        start == parseTimePP(Field(csvrow, 4), Field(csvrow, 5))
    IN  IF Len(csvrow) # 11 THEN Raise("Exception")
        ELSE IF ~IdentityPP(csvrow) THEN Raise("Exception")
        ELSE IF ~fw.ok THEN fw
        ELSE IF fw.v \notin SUPPORTED_FIRMWARE_PP THEN Raise("Exception")
        ELSE IF ~hw.ok THEN hw
        ELSE IF ~start.ok THEN start
        ELSE IF \E k \in 3..7 : ~TaggedPP(csvrow, k).ok
             THEN TaggedPP(csvrow, Min({k \in 3..7 : ~TaggedPP(csvrow, k).ok}))
        ELSE Ok([make |-> make, model |-> model, fw |-> fw.v, hw |-> hw.v,
                 startsec |-> start.v,
                 alt |-> TaggedPP(csvrow, 3).v, temp |-> TaggedPP(csvrow, 4).v,
                 humid |-> TaggedPP(csvrow, 5).v, tire |-> TaggedPP(csvrow, 6).v,
                 cf |-> TaggedPP(csvrow, 7).v])

\* Revolution.parseDeviceHdr of the GT script
parseDeviceHdrGT(csvrow) ==
    LET make_model == strip(Field(csvrow, 0))
        fw_str == Field(csvrow, 1)
        fw     == strip(SliceFrom(fw_str, 3))
        hw     == strip(SliceFrom(Field(csvrow, 2), 3))
        start  == parseTimeGT(Field(csvrow, 4), PadLeft5(Field(csvrow, 5)))
    IN  IF Len(csvrow) # 9 THEN Raise("Exception")
        ELSE IF ~IdentityGT(csvrow) THEN Raise("Exception")
        ELSE IF ~startswith(fw_str, <<"F", "W", " ">>) THEN Raise("Exception")
        ELSE IF fw \notin SUPPORTED_FIRMWARE_GT THEN Raise("Exception")
        ELSE IF ~start.ok THEN start
        ELSE Ok([make_model |-> make_model, fw |-> fw, hw |-> hw,
                 startsec |-> start.v])

parseDeviceHdr(v, csvrow) ==
    IF v = "PP" THEN parseDeviceHdrPP(csvrow) ELSE parseDeviceHdrGT(csvrow)

\* Revolution.metersPerSec: speed / 3.6
metersPerSec(speed) == RatDiv(speed, Rat(36, 10))

\* Revolution.isoTimestamp: time.gmtime and the fields strftime prints
isoTimestamp(seconds) ==
    LET date == CivilFromDays(seconds \div 86400)
        sod  == seconds % 86400
    IN  [Y |-> date.Y, m |-> date.m, d |-> date.d,
         H |-> sod \div 3600, M |-> (sod % 3600) \div 60, S |-> sod % 60]

(***************************************************************************)
(* Inputs: the rows the csv reader can yield.                              *)
(***************************************************************************)
\* row with field i (0-based) replaced by text
Subst(row, i, text) == [row EXCEPT ![i + 1] = text]

DeviceRowPP ==
    << <<"L", "e", "M", "o", "n", "d">>, <<"R", "e", "v", "o", "l", "u", "t", "i", "o", "n">>, <<"F", "W", " ", "6", "3">>, <<"H", "W", " ", "1">>, <<"0", "9", "/", "2", "6">>,
       <<"1", "3", ":", "0", "0", ":", "0", "0">>, <<"A", "l", "t", " ", "0">>, <<"T", "e", "m", "p", " ", "2", "0">>, <<"H", "u", "m", " ", "5", "0">>, <<"T", "i", "r", "e", " ", "2">>,
       <<"C", "F", " ", "1">> >>

DeviceRowGT ==
    << <<"L", "e", "M", "o", "n", "d", " ", "R", "e", "v", "o", "l", "u", "t", "i", "o", "n">>, <<"F", "W", " ", "0", ".", "3", "1">>, <<"H", "W", " ", "1", ".", "0">>, <<"S", "T", "N", " ", "1">>,
       <<"1", "3", "0", "9", "2", "6">>, <<"7", ":", "3", "0">>, <<>>, <<>>, <<>> >>

\* device header rows of a Power Pilot file
DeviceRowsPP ==
    {DeviceRowPP,
     Subst(Subst(DeviceRowPP, 0, <<" ", "L", "e", "M", "o", "n", "d">>), 1, <<"R", "e", "v", "o", "l", "u", "t", "i", "o", "n", " ">>),
     Subst(DeviceRowPP, 0, <<"L", "e", "m", "o", "n", "d">>),
     Subst(DeviceRowPP, 1, <<"R", "e", "v", "o", "l", "u", "t", "i", "o", "n", "2">>),
     Subst(DeviceRowPP, 2, <<"F", "W", " ", "6", "4">>),
     Subst(DeviceRowPP, 2, <<"F", "W", " ", "6", "x">>),
     Subst(DeviceRowPP, 2, <<"F", "W">>),
     Subst(DeviceRowPP, 2, <<"F", "w", " ", "6", "3">>),
     Subst(DeviceRowPP, 3, <<"H", "V", " ", "1">>),
     Subst(DeviceRowPP, 4, <<"0", "2", "/", "3", "0">>),
     Subst(DeviceRowPP, 8, <<"H", "u", "m", " ", "x">>),
     Subst(DeviceRowPP, 10, <<"C", "G", " ", "1">>),
     SubSeq(DeviceRowPP, 1, 10),
     DeviceRowPP \o << <<"x">> >>}

\* device header rows of a GT file
DeviceRowsGT ==
    {DeviceRowGT,
     Subst(DeviceRowGT, 0, <<" ", "L", "e", "M", "o", "n", "d", " ", "R", "e", "v", "o", "l", "u", "t", "i", "o", "n", " ">>),
     Subst(DeviceRowGT, 0, <<"L", "e", "M", "o", "n", "d", " ", " ", "R", "e", "v", "o", "l", "u", "t", "i", "o", "n">>),
     Subst(DeviceRowGT, 0, <<"L", "e", "M", "o", "n", "d">>),
     Subst(DeviceRowGT, 1, <<"F", "W", " ", "0", ".", "3", "2">>),
     Subst(DeviceRowGT, 1, <<"F", "W", "0", ".", "3", "1">>),
     Subst(DeviceRowGT, 1, <<"0", ".", "3", "1">>),
     Subst(DeviceRowGT, 2, <<"H", "V", " ", "1", ".", "0">>),
     Subst(DeviceRowGT, 4, <<"1", "3", "0", "2", "3", "0">>),
     Subst(DeviceRowGT, 5, <<"7", ".", "3", "0">>),
     SubSeq(DeviceRowGT, 1, 8),
     DeviceRowGT \o << <<"x">> >>}

DeviceRows(v) == IF v = "PP" THEN DeviceRowsPP ELSE DeviceRowsGT

\* the sequence s with elements i and j exchanged
Swap(s, i, j) == [s EXCEPT ![i] = s[j], ![j] = s[i]]

\* point-schema header rows: the expected one of either script, reorderings,
\* a missing, an extra and a misspelled column
PointHdrRows(v) ==
    {ExpectedColsPP, ExpectedColsGT,
     Swap(ExpectedCols(v), 2, 3),
     Swap(ExpectedCols(v), 1, 9),
     SubSeq(ExpectedCols(v), 1, 8),
     Tail(ExpectedCols(v)),
     ExpectedCols(v) \o << <<"EXTRA">> >>,
     Subst(ExpectedCols(v), 2, <<"DISTANCE">>),
     Subst(ExpectedCols(v), 1, <<" ", "SPEED">>)}

Times == << <<"0", "0", ":", "0", "0", ":", "0", "1">>, <<"0", "0", ":", "0", "0", ":", "0", "2">> >>

\* a time of day late enough to carry the timestamp into the next UTC day
LateTime == <<"2", "0", ":", "0", "0", ":", "0", "1">>

RawDists == << <<"0", ".", "0">>, <<"0", ".", "1">> >>

Speeds == { <<"1", "0", ".", "0">>, <<"0", ".", "5">>, <<"-", "3", ".", "6">> }

\* <<power, heart, cadence>>
StatTexts ==
    { << <<"1", "0", "0">>, <<"1", "0", "0">>, <<"8", "0">> >>, << <<"1", "5", "0">>, <<"1", "0", "1">>, <<"9", "1">> >> }

DataRow(time, speed, dist, stat) ==
    <<time, speed, dist, stat[1], stat[2], stat[3], <<"1">>, <<"5">>, <<"0">>>>

PlainRow == DataRow(Times[1], <<"1", "0", ".", "0">>, RawDists[1], << <<"1", "0", "0">>, <<"1", "0", "0">>, <<"8", "0">> >>)

\* rows of nine well-formed fields
NineFieldRows ==
    {DataRow(Times[1], s, RawDists[1], st) : s \in Speeds, st \in StatTexts}
    \cup {DataRow(Times[2], <<"1", "0", ".", "0">>, RawDists[2], st) : st \in StatTexts}
    \cup {DataRow(Times[1], <<"1", "0", ".", "0">>, RawDists[1], << <<"-", "5">>, <<"-", "1">>, <<"-", "2">> >>)}
    \cup {DataRow(LateTime, <<"1", "0", ".", "0">>, RawDists[2], << <<"1", "0", "0">>, <<"1", "0", "0">>, <<"8", "0">> >>)}

\* rows the csv reader can yield after the two header rows: the well-formed
\* ones, a row of ten fields, rows of eight and of no fields (a blank line),
\* and rows with a field that is no number or no time
DataRows ==
    NineFieldRows
    \cup {PlainRow \o << <<"9">> >>,
          SubSeq(PlainRow, 1, 8),
          <<>>,
          Subst(PlainRow, 1, <<"f", "a", "s", "t">>),
          Subst(PlainRow, 4, <<"1", ".", "5">>),
          Subst(PlainRow, 0, <<"2", "5", ":", "0", "0", ":", "0", "0">>)}

(***************************************************************************)
(* State of one run of a script.                                           *)
(***************************************************************************)
VARIABLES
    variant,     \* "PP": lemondcsv.py, "GT": lemondcsv_gt.py
    py,          \* major version of the interpreter: `/` on two ints floors in 2
    oname,       \* <<"-">>: the document goes to stdout; otherwise a file name
    pc,          \* position of the run
    read,        \* the rows the csv reader has yielded, in order
    dev,         \* the attributes parseDeviceHdr has set
    points,      \* self.points
    maxSpeed, maxHeart, maxCadence, maxWatts,
    ttlSpeed, ttlHeart, ttlCadence, ttlWatts,
    ttlDist,     \* meters
    tcdb,        \* the element tree trainingCenterDB returned
    sink,        \* what has been written to the output
    outfile,     \* the output file: "absent", "empty" (created) or "written"
    err          \* the exception that ended the run

vars ==
    <<variant, py, oname, pc, read, dev, points, maxSpeed, maxHeart,
      maxCadence, maxWatts, ttlSpeed, ttlHeart, ttlCadence, ttlWatts, ttlDist,
      tcdb, sink, outfile, err>>

stats ==
    <<maxSpeed, maxHeart, maxCadence, maxWatts, ttlSpeed, ttlHeart,
      ttlCadence, ttlWatts>>

NoDev == [none |-> TRUE]

Stdout == <<"-">>

TcxFile == <<"workout.tcx">>

\* The Power Pilot script is Python 2 only (print statement, rdr.next()) and
\* prints to stdout; the GT script runs under 2 and 3 and writes oname, which
\* output_name has found not to exist.  Revolution.__init__ zeroes the
\* statistics before readCSV.
Init ==
    /\ variant \in {"PP", "GT"}
    /\ py \in (IF variant = "PP" THEN {2} ELSE {2, 3})
    /\ oname \in (IF variant = "PP" THEN {Stdout} ELSE {Stdout, TcxFile})
    /\ pc = "Start"
    /\ read = <<>>
    /\ dev = NoDev
    /\ points = <<>>
    /\ maxSpeed = FromInt(0)
    /\ maxHeart = 0
    /\ maxCadence = 0
    /\ maxWatts = 0
    /\ ttlSpeed = FromInt(0)
    /\ ttlHeart = 0
    /\ ttlCadence = 0
    /\ ttlWatts = 0
    /\ ttlDist = FromInt(0)
    /\ tcdb = <<>>
    /\ sink = <<>>
    /\ outfile = "absent"
    /\ err = "none"

\* an uncaught exception ends the run
Fail(e) == pc' = "failed" /\ err' = e

(***************************************************************************)
(* Revolution.readCSV                                                      *)
(***************************************************************************)
\* self.parseDeviceHdr(next(rdr))
ParseDeviceHdr ==
    /\ pc = "Start"
    /\ \/ \E csvrow \in DeviceRows(variant) :
            LET r == parseDeviceHdr(variant, csvrow)
            IN  /\ read' = Append(read, csvrow)
                /\ IF r.ok
                   THEN dev' = r.v /\ pc' = "DeviceHdrParsed" /\ err' = err
                   ELSE dev' = dev /\ Fail(r.v)
       \/ \* the file has no rows
          /\ Fail("StopIteration")
          /\ UNCHANGED <<read, dev>>
    /\ UNCHANGED <<variant, py, oname, points, stats, ttlDist, tcdb, sink, outfile>>

\* Point.parsePointHdr(next(rdr))
ParsePointHdr ==
    /\ pc = "DeviceHdrParsed"
    /\ \/ \E csvrow \in PointHdrRows(variant) :
            LET r == parsePointHdr(variant, csvrow)
            IN  /\ read' = Append(read, csvrow)
                /\ IF r.ok
                   THEN pc' = "HeaderValidated" /\ err' = err
                   ELSE Fail(r.v)
       \/ \* the file has one row
          /\ Fail("StopIteration")
          /\ UNCHANGED read
    /\ UNCHANGED <<variant, py, oname, dev, points, stats, ttlDist, tcdb, sink, outfile>>

\* a maximum that keeps the latest value instead of the largest
NewMax_Latest(old, v) == v

\* `if v > self.max: self.max = v` on an int field
NewMax(old, v) == IF v > old THEN v ELSE old

\* Revolution.collectStats
collectStats(p) ==
    /\ ttlSpeed' = RatAdd(ttlSpeed, p.speed)
    /\ ttlHeart' = ttlHeart + p.heart
    /\ ttlCadence' = ttlCadence + p.cadence
    /\ ttlWatts' = ttlWatts + p.power
    /\ maxSpeed' = IF RatLess(maxSpeed, p.speed) THEN p.speed ELSE maxSpeed
    /\ maxHeart' = NewMax(maxHeart, p.heart)
    /\ maxCadence' = NewMax(maxCadence, p.cadence)
    /\ maxWatts' = NewMax(maxWatts, p.power)

\* fixDistance with `=` for `+=`: no running total
fixDistance_NoTotal(p) ==
    /\ ttlDist' = metersPerSec(p.speed)
    /\ points' = Append(points, [p EXCEPT !.dist = RatDiv(ttlDist', FromInt(1000))])

\* fixDistance that leaves the vendor's distance in the point
fixDistance_KeepsRaw(p) ==
    /\ ttlDist' = RatAdd(ttlDist, metersPerSec(p.speed))
    /\ points' = Append(points, p)

\* Revolution.fixDistance, on the point readCSV has just appended
fixDistance(p) ==
    /\ ttlDist' = RatAdd(ttlDist, metersPerSec(p.speed))
    /\ points' = Append(points, [p EXCEPT !.dist = RatDiv(ttlDist', FromInt(1000))])

\* one turn of `for row in rdr`
ReadRow ==
    /\ pc = "HeaderValidated"
    /\ Len(points) < MaxRows
    /\ \E csvrow \in DataRows :
          LET p == Point(csvrow)
          IN  /\ read' = Append(read, csvrow)
              /\ IF p.ok
                 THEN /\ collectStats(p.v)
                      /\ fixDistance(p.v)
                      /\ UNCHANGED <<pc, err>>
                 ELSE /\ Fail(p.v)
                      /\ UNCHANGED <<points, stats, ttlDist>>
    /\ UNCHANGED <<variant, py, oname, dev, tcdb, sink, outfile>>

\* the reader is exhausted: readCSV and Revolution.__init__ return
EndOfRows ==
    /\ pc = "HeaderValidated"
    /\ pc' = "SamplesProcessed"
    /\ UNCHANGED <<variant, py, oname, read, dev, points, stats, ttlDist, tcdb,
                   sink, outfile, err>>

(***************************************************************************)
(* Revolution.trainingCenterDB: the element tree.  An element is           *)
(* <<tag, content>>; the content is a sequence of elements, a text, or the *)
(* number str() prints.                                                    *)
(***************************************************************************)
\* a / b rounded to the nearest integer instead of down
PyDiv_Nearest(a, b) == IF py = 2 THEN FromInt((2 * a + b) \div (2 * b)) ELSE Rat(a, b)

\* a / b for two ints: floor division under Python 2, true division under 3
PyDiv(a, b) == IF py = 2 THEN FromInt(a \div b) ELSE Rat(a, b)

\* Point.trackpointElement
trackpointElement(p, start) ==
    << <<"Time", isoTimestamp(start + p.secs)>>,
       <<"DistanceMeters", RatMul(p.dist, FromInt(1000))>>,
       <<"HeartRateBpm", << <<"Value", p.heart>> >> >>,
       <<"Cadence", p.cadence>>,
       <<"Extensions",
           << <<"TPX", << <<"Speed", metersPerSec(p.speed)>>,
                          <<"Watts", p.power>> >> >> >> >> >>

\* trackElement walking the points from the last to the first
trackElement_Reversed ==
    [k \in 1..Len(points) |->
        <<"Trackpoint", trackpointElement(points[Len(points) + 1 - k], dev.startsec)>>]

\* Revolution.trackElement
trackElement ==
    [k \in 1..Len(points) |-> <<"Trackpoint", trackpointElement(points[k], dev.startsec)>>]

\* Revolution.LapExtension
LapExtension(tag, text) == <<"LX", << <<tag, text>> >> >>

\* Revolution.addLap: self.points[last] raises when there are no points
addLap ==
    LET last == Len(points) - 1
        lastPoint == points[last + 1]
    IN  IF points = <<>> THEN Raise("IndexError")
        ELSE Ok(
          << <<"TotalTimeSeconds", lastPoint.secs>>,
             <<"DistanceMeters", RatMul(lastPoint.dist, FromInt(1000))>>,
             <<"MaximumSpeed", metersPerSec(maxSpeed)>>,
             <<"Calories", lastPoint.calories>>,
             <<"AverageHeartRateBpm", << <<"Value", PyDiv(ttlHeart, last + 1)>> >> >>,
             <<"MaximumHeartRateBpm", << <<"Value", maxHeart>> >> >>,
             <<"Intensity", <<"A", "c", "t", "i", "v", "e">>>>,
             <<"Cadence", PyDiv(ttlCadence, last + 1)>>,
             <<"TriggerMethod", <<"M", "a", "n", "u", "a", "l">>>>,
             <<"Track", trackElement>>,
             <<"Extensions",
                 << LapExtension("MaxBikeCadence", maxCadence),
                    LapExtension("AvgSpeed",
                        metersPerSec(RatDiv(ttlSpeed, FromInt(last + 1)))),
                    LapExtension("AvgWatts", PyDiv(ttlWatts, last + 1)),
                    LapExtension("MaxWatts", maxWatts) >> >> >>)

Zero == <<"0">>

Version(major, minor) ==
    << <<"VersionMajor", major>>, <<"VersionMinor", minor>>,
       <<"BuildMajor", Zero>>, <<"BuildMinor", Zero>> >>

\* Revolution.addCreator; the firmware of the GT is split at the point
addCreator ==
    << <<"Name", IF variant = "PP" THEN dev.make \o <<" ">> \o dev.model
                 ELSE dev.make_model>>,
       <<"UnitId", Zero>>,
       <<"ProductID", dev.hw>>,
       <<"Version", IF variant = "PP" THEN Version(dev.fw, Zero)
                    ELSE Version(split(dev.fw, ".")[1], split(dev.fw, ".")[2])>> >>

\* Revolution.addAuthor
addAuthor ==
    << <<"Name", <<"Revolution CSV to TCX Convertor">> >>,
       <<"Build", << <<"Version", Version(<<"1">>, Zero)>> >> >>,
       <<"LangID", <<"e", "n">>>>,
       <<"PartNumber", <<"n", "o", "n", "e">>>> >>

\* addActivity calling addCreator before addLap
addActivity_CreatorFirst ==
    LET lap == addLap
    IN  IF ~lap.ok THEN lap
        ELSE Ok(<< <<"Id", isoTimestamp(dev.startsec)>>,
                   <<"Creator", addCreator>>,
                   <<"Lap", lap.v>> >>)

\* Revolution.addActivity
addActivity ==
    LET lap == addLap
    IN  IF ~lap.ok THEN lap
        ELSE Ok(<< <<"Id", isoTimestamp(dev.startsec)>>,
                   <<"Lap", lap.v>>,
                   <<"Creator", addCreator>> >>)

\* Revolution.trainingCenterDB
trainingCenterDB ==
    LET act == addActivity
    IN  IF ~act.ok THEN act
        ELSE Ok(<< <<"Activities", << <<"Activity", act.v>> >> >>,
                   <<"Author", addAuthor>> >>)

(***************************************************************************)
(* The module body: what follows Revolution(iname).                        *)
(***************************************************************************)
\* lemondcsv_gt.py: ofile is sys.stdout, or open(oname, "wb") creates the file
OpenOutput ==
    /\ pc = "SamplesProcessed"
    /\ variant = "GT"
    /\ pc' = "OutputOpened"
    /\ outfile' = IF oname = Stdout THEN outfile ELSE "empty"
    /\ UNCHANGED <<variant, py, oname, read, dev, points, stats, ttlDist, tcdb,
                   sink, err>>

\* first statement of writeTCX: tcdb = self.trainingCenterDB()
BuildDocument ==
    /\ pc = (IF variant = "PP" THEN "SamplesProcessed" ELSE "OutputOpened")
    /\ LET r == trainingCenterDB
       IN  IF r.ok
           THEN tcdb' = r.v /\ pc' = "DocumentBuilt" /\ err' = err
           ELSE tcdb' = tcdb /\ Fail(r.v)
    /\ UNCHANGED <<variant, py, oname, read, dev, points, stats, ttlDist, sink,
                   outfile>>

\* rest of writeTCX: print, or et.write(file) and ofile.close()
Emit ==
    /\ pc = "DocumentBuilt"
    /\ sink' = tcdb
    /\ outfile' = IF oname = Stdout THEN outfile ELSE "written"
    /\ pc' = "emitted"
    /\ UNCHANGED <<variant, py, oname, read, dev, points, stats, ttlDist, tcdb,
                   err>>

Next ==
    \/ ParseDeviceHdr
    \/ ParsePointHdr
    \/ ReadRow
    \/ EndOfRows
    \/ OpenOutput
    \/ BuildDocument
    \/ Emit

Spec == Init /\ [][Next]_vars

(***************************************************************************)
(* Properties.                                                             *)
(***************************************************************************)
\* readCSV has returned: every row was decoded
SamplesDone == pc \in {"SamplesProcessed", "OutputOpened", "DocumentBuilt", "emitted"}

\* the content of the child element of that tag
Child(content, tag) ==
    content[CHOOSE k \in 1..Len(content) : content[k][1] = tag][2]

\* the Lap element of a built document
LapOf(doc) == Child(Child(Child(doc, "Activities"), "Activity"), "Lap")

\* the k-th LX extension of the lap
LapExt(doc, k) == Child(LapOf(doc), "Extensions")[k][2][1][2]

RECURSIVE SumSpeed(_)
SumSpeed(i) == IF i = 0 THEN FromInt(0) ELSE RatAdd(SumSpeed(i - 1), points[i].speed)

RECURSIVE SumOf(_, _)
SumOf(f, i) == IF i = 0 THEN 0 ELSE SumOf(f, i - 1) + points[i][f]

MaxOf(f) == CHOOSE m \in {points[i][f] : i \in 1..Len(points)} :
                \A i \in 1..Len(points) : points[i][f] <= m

MaxSpeedOf == CHOOSE m \in {points[i].speed : i \in 1..Len(points)} :
                  \A i \in 1..Len(points) : RatLeq(points[i].speed, m)

AtLeast0(x) == IF x < 0 THEN 0 ELSE x

\* the raw DIST column of data row i, as the number it denotes
RawDist(i) == float(Field(read[i + 2], 2)).v

\* C1: after readCSV the corrected distance in meters of sample i, p.dist * 1000,
\* is the sum of speed/3.6 over the samples up to i, whatever the DIST column held
C1_PrefixSum ==
    SamplesDone =>
        \A i \in 1..Len(points) :
            RatMul(points[i].dist, FromInt(1000)) = RatDiv(SumSpeed(i), Rat(36, 10))

\* two samples decoded, the last with a raw DIST that is not its corrected distance
C1_Witness ==
    /\ SamplesDone
    /\ Len(points) = 2
    /\ points[1].speed # points[2].speed
    /\ RawDist(2) # points[2].dist

\* C2 as claimed: the corrected distance never decreases from one accepted sample
\* to the next
C2_NonDecreasing ==
    SamplesDone =>
        \A i \in 2..Len(points) : RatLeq(points[i - 1].dist, points[i].dist)

\* C2, amended: the corrected distance does not decrease from sample i-1 to sample
\* i when the speed of sample i is not negative
C2_NonDecreasingNonNegative ==
    SamplesDone =>
        \A i \in 2..Len(points) :
            RatLeq(FromInt(0), points[i].speed)
                => RatLeq(points[i - 1].dist, points[i].dist)

\* two samples of positive speed, the second farther than the first
C2_Witness ==
    /\ SamplesDone
    /\ Len(points) = 2
    /\ RatLess(FromInt(0), points[1].speed)
    /\ RatLess(FromInt(0), points[2].speed)
    /\ RatLess(points[1].dist, points[2].dist)

AvgHeart == Child(Child(LapOf(tcdb), "AverageHeartRateBpm"), "Value")

AvgCadence == Child(LapOf(tcdb), "Cadence")

AvgSpeed == LapExt(tcdb, 2)

AvgWatts == LapExt(tcdb, 3)

N == Len(points)

\* C3 as claimed: the lap's average heart rate, cadence, power and speed are the
\* field's sum divided by the number of samples
C3_ExactAverages ==
    tcdb # <<>> =>
        /\ AvgHeart = Rat(SumOf("heart", N), N)
        /\ AvgCadence = Rat(SumOf("cadence", N), N)
        /\ AvgWatts = Rat(SumOf("power", N), N)
        /\ AvgSpeed = metersPerSec(RatDiv(SumSpeed(N), FromInt(N)))

\* C3, amended: the average speed is sum/count; the averages of heart rate,
\* cadence and power are sum/count rounded down under Python 2 and sum/count
\* under Python 3, hence sum/count whenever the count divides the sum
C3_Averages ==
    tcdb # <<>> =>
        /\ AvgSpeed = metersPerSec(RatDiv(SumSpeed(N), FromInt(N)))
        /\ \A f \in {"heart", "cadence", "power"} :
              LET avg == CASE f = "heart" -> AvgHeart
                           [] f = "cadence" -> AvgCadence
                           [] f = "power" -> AvgWatts
                  sum == SumOf(f, N)
              IN  /\ py = 2 => avg = FromInt(sum \div N)
                  /\ py = 3 => avg = Rat(sum, N)
                  /\ sum % N = 0 => avg = Rat(sum, N)

\* a Python 2 run over heart rates 100 and 101 has built its document
C3_Witness ==
    /\ tcdb # <<>>
    /\ py = 2
    /\ N = 2
    /\ SumOf("heart", N) = 201
    /\ AvgHeart = FromInt(100)

\* C4 as claimed: after all rows the four maxima are the true maxima of their
\* fields, and with one sample each maximum is the average
C4_TrueMaxima ==
    /\ (SamplesDone /\ N > 0) =>
          /\ maxSpeed = MaxSpeedOf
          /\ maxHeart = MaxOf("heart")
          /\ maxCadence = MaxOf("cadence")
          /\ maxWatts = MaxOf("power")
    /\ (tcdb # <<>> /\ N = 1) =>
          /\ Child(LapOf(tcdb), "MaximumSpeed") = AvgSpeed
          /\ FromInt(Child(Child(LapOf(tcdb), "MaximumHeartRateBpm"), "Value")) = AvgHeart
          /\ FromInt(LapExt(tcdb, 1)) = AvgCadence
          /\ FromInt(LapExt(tcdb, 4)) = AvgWatts

\* C4, amended: each maximum is the larger of 0 and the true maximum of its field,
\* and with one sample each maximum is the larger of 0 and the average
C4_MaximaFromZero ==
    /\ (SamplesDone /\ N > 0) =>
          /\ maxSpeed = (IF RatLess(MaxSpeedOf, FromInt(0)) THEN FromInt(0) ELSE MaxSpeedOf)
          /\ maxHeart = AtLeast0(MaxOf("heart"))
          /\ maxCadence = AtLeast0(MaxOf("cadence"))
          /\ maxWatts = AtLeast0(MaxOf("power"))
    /\ (tcdb # <<>> /\ N = 1) =>
          /\ RatLeq(FromInt(0), points[1].speed)
                => Child(LapOf(tcdb), "MaximumSpeed") = AvgSpeed
          /\ points[1].heart >= 0
                => FromInt(Child(Child(LapOf(tcdb), "MaximumHeartRateBpm"), "Value")) = AvgHeart
          /\ points[1].cadence >= 0 => FromInt(LapExt(tcdb, 1)) = AvgCadence
          /\ points[1].power >= 0 => FromInt(LapExt(tcdb, 4)) = AvgWatts

\* two samples, the larger cadence first, so the maximum is not the last value
C4_Witness ==
    /\ SamplesDone
    /\ N = 2
    /\ points[1].cadence > points[2].cadence
    /\ points[2].cadence > 0
    /\ maxCadence = points[1].cadence

\* the run failed on the device header: one row read, nothing decoded or written
FailedOnDeviceHdr ==
    /\ pc = "failed"
    /\ Len(read) = 1
    /\ points = <<>>
    /\ tcdb = <<>>
    /\ sink = <<>>
    /\ outfile = "absent"

\* the firmware field of a device header row, and the only text of a supported one
FirmwareField(row) == Field(row, IF variant = "PP" THEN 2 ELSE 1)

SupportedFirmwareField == IF variant = "PP" THEN <<"F", "W", " ", "6", "3">> ELSE <<"F", "W", " ", "0", ".", "3", "1">>

\* C5: a device header whose firmware is not the supported one fails the run in
\* header validation: no data row is decoded, nothing is written, no file is made
C5_UnsupportedFirmware ==
    (Len(read) >= 1 /\ Len(read[1]) >= 3
        /\ FirmwareField(read[1]) # SupportedFirmwareField) => FailedOnDeviceHdr

\* a header that is right but for its firmware, 64 or 0.32, has been rejected
C5_Witness ==
    /\ FailedOnDeviceHdr
    /\ read[1] \in {Subst(DeviceRowPP, 2, <<"F", "W", " ", "6", "4">>), Subst(DeviceRowGT, 1, <<"F", "W", " ", "0", ".", "3", "2">>)}

\* the run failed on the point-schema header
FailedOnPointHdr ==
    /\ pc = "failed"
    /\ err = "Exception"
    /\ Len(read) = 2
    /\ points = <<>>
    /\ sink = <<>>

\* C6: the point-schema header is accepted if and only if it is, position by
\* position, the variant's list of 9 column names
C6_PositionalSchema ==
    Len(read) >= 2 => (FailedOnPointHdr <=> read[2] # ExpectedCols(variant))

\* a header holding the 9 expected names in another order has been rejected
C6_Witness ==
    /\ FailedOnPointHdr
    /\ Len(read[2]) = 9
    /\ {read[2][i] : i \in 1..9} = {ExpectedCols(variant)[i] : i \in 1..9}

\* C7 as claimed: a data row that has not exactly 9 fields ends the run in
\* failure, and no sample is made from it
C7_NineFields ==
    \A k \in 3..Len(read) :
        Len(read[k]) # 9 => (pc = "failed" /\ k = Len(read) /\ Len(points) = k - 3)

\* both header rows were accepted, the reader gave no data row, the run is over
ZeroRowsRunOver ==
    /\ Len(read) = 2
    /\ read[2] = ExpectedCols(variant)
    /\ pc \in {"failed", "emitted"}

\* C8 as claimed: a run over two valid header rows and no data row fails and
\* leaves no output, neither document bytes nor an output file
C8_EmptyRejected ==
    ZeroRowsRunOver => (pc = "failed" /\ tcdb = <<>> /\ sink = <<>> /\ outfile = "absent")

\* C9 as claimed: the document exists only from DocumentBuilt on, a failed run
\* has produced no output, and the output is first touched, opened or written,
\* after the whole document has been built
C9_NoOutputBeforeDocument ==
    /\ tcdb # <<>> => pc \in {"DocumentBuilt", "emitted"}
    /\ sink # <<>> => pc = "emitted"
    /\ pc = "failed" => (sink = <<>> /\ outfile = "absent")
    /\ (sink # <<>> \/ outfile # "absent") => tcdb # <<>>

\* the identity fields of a device header row
IdentityFields(row) ==
    IF variant = "PP" THEN <<Field(row, 0), Field(row, 1)>> ELSE <<Field(row, 0)>>

ExpectedIdentity ==
    IF variant = "PP" THEN <<TextLeMond, TextRevolution>> ELSE <<TextLeMondRevolution>>

\* text without the spaces at its two ends
Trimmed(fields) == [i \in 1..Len(fields) |-> strip(fields[i])]

\* C10 as claimed: a device header whose identity fields are not exactly the
\* expected text, spaces at the ends included, fails the run
C10_ExactIdentity ==
    (Len(read) >= 1 /\ Len(read[1]) >= 2
        /\ IdentityFields(read[1]) # ExpectedIdentity) => FailedOnDeviceHdr

\* C10, amended: a device header whose identity fields, with the spaces at their
\* ends removed, are not the expected text fails the run
C10_TrimmedIdentity ==
    (Len(read) >= 1 /\ Len(read[1]) >= 2
        /\ Trimmed(IdentityFields(read[1])) # ExpectedIdentity) => FailedOnDeviceHdr

\* a header that is right but for its identity has been rejected
C10_Witness ==
    /\ FailedOnDeviceHdr
    /\ Trimmed(IdentityFields(read[1])) # ExpectedIdentity
    /\ Len(read[1]) = (IF variant = "PP" THEN 11 ELSE 9)
    /\ FirmwareField(read[1]) = SupportedFirmwareField

\* the Track of the built document, and the content of its k-th Trackpoint
TrackOf(doc) == Child(LapOf(doc), "Track")

Trackpoint(k) == TrackOf(tcdb)[k][2]

\* the k-th data row the reader yielded
DataRowAt(k) == read[k + 2]

\* offsetSeconds of the k-th data row, from its TIME text
RowSecs(k) == timeToSecs(Field(DataRowAt(k), 0)).v

\* one timestamp is earlier than another: calendar fields compared in order
TsLess(a, b) ==
    LET fa == <<a.Y, a.m, a.d, a.H, a.M, a.S>>
        fb == <<b.Y, b.m, b.d, b.H, b.M, b.S>>
    IN  \E i \in 1..6 : fa[i] < fb[i] /\ \A j \in 1..(i - 1) : fa[j] = fb[j]

\* C11: the Track of a built document holds one Trackpoint per data row, the
\* k-th with the heart rate, cadence, speed (m/s) and power of the k-th row and
\* Time = start + that row's seconds; strictly increasing row times give strictly
\* increasing timestamps
C11_Trackpoints ==
    tcdb # <<>> =>
        /\ Len(TrackOf(tcdb)) = Len(read) - 2
        /\ \A k \in 1..Len(TrackOf(tcdb)) :
              /\ TrackOf(tcdb)[k][1] = "Trackpoint"
              /\ Child(Trackpoint(k), "Time") = isoTimestamp(dev.startsec + RowSecs(k))
              /\ Child(Child(Trackpoint(k), "HeartRateBpm"), "Value")
                    = int(Field(DataRowAt(k), 4)).v
              /\ Child(Trackpoint(k), "Cadence") = int(Field(DataRowAt(k), 5)).v
              /\ Child(Child(Child(Trackpoint(k), "Extensions"), "TPX"), "Speed")
                    = RatDiv(float(Field(DataRowAt(k), 1)).v, Rat(36, 10))
              /\ Child(Child(Child(Trackpoint(k), "Extensions"), "TPX"), "Watts")
                    = int(Field(DataRowAt(k), 3)).v
        /\ \A k \in 2..Len(TrackOf(tcdb)) :
              RowSecs(k - 1) < RowSecs(k)
                  => TsLess(Child(Trackpoint(k - 1), "Time"), Child(Trackpoint(k), "Time"))

\* a document of two rows that differ in time, heart rate and speed, the second
\* row's timestamp falling on the next UTC day
C11_Witness ==
    /\ tcdb # <<>>
    /\ Len(read) = 4
    /\ RowSecs(1) < RowSecs(2)
    /\ Field(DataRowAt(1), 4) # Field(DataRowAt(2), 4)
    /\ Field(DataRowAt(1), 1) # Field(DataRowAt(2), 1)
    /\ Child(Trackpoint(1), "Time").d < Child(Trackpoint(2), "Time").d

\* the tags of the children of an element, in document order
Tags(content) == [k \in 1..Len(content) |-> content[k][1]]

ActivityOf(doc) == Child(Child(doc, "Activities"), "Activity")

\* the lap elements the schema puts before the Track
LapSummaryTags ==
    <<"TotalTimeSeconds", "DistanceMeters", "MaximumSpeed", "Calories",
      "AverageHeartRateBpm", "MaximumHeartRateBpm", "Intensity", "Cadence",
      "TriggerMethod">>

\* C12: in a built document Author follows Activities, Activity holds Id, Lap,
\* Creator in that order, Lap holds the nine summary elements, then Track, then
\* Extensions; the summary values are those of all the rows the reader yielded,
\* and what is emitted is that document
C12_ElementOrder ==
    /\ tcdb # <<>> =>
          /\ Tags(tcdb) = <<"Activities", "Author">>
          /\ Tags(Child(tcdb, "Activities")) = <<"Activity">>
          /\ Tags(ActivityOf(tcdb)) = <<"Id", "Lap", "Creator">>
          /\ Tags(LapOf(tcdb)) = LapSummaryTags \o <<"Track", "Extensions">>
          /\ Tags(Child(LapOf(tcdb), "Extensions")) = <<"LX", "LX", "LX", "LX">>
          /\ N = Len(read) - 2
          /\ Child(LapOf(tcdb), "TotalTimeSeconds") = RowSecs(N)
          /\ Child(LapOf(tcdb), "DistanceMeters") = RatDiv(SumSpeed(N), Rat(36, 10))
          /\ Child(LapOf(tcdb), "Calories") = int(Field(DataRowAt(N), 6)).v
          /\ Child(LapOf(tcdb), "MaximumSpeed") = metersPerSec(maxSpeed)
          /\ \A k \in 1..N : RatLeq(points[k].speed, maxSpeed)
          /\ Child(Child(LapOf(tcdb), "MaximumHeartRateBpm"), "Value")
                = AtLeast0(MaxOf("heart"))
          /\ AvgHeart \in {FromInt(SumOf("heart", N) \div N), Rat(SumOf("heart", N), N)}
          /\ AvgCadence \in {FromInt(SumOf("cadence", N) \div N), Rat(SumOf("cadence", N), N)}
    /\ sink # <<>> => (pc = "emitted" /\ sink = tcdb)

\* a document of two rows has been emitted
C12_Witness ==
    /\ pc = "emitted"
    /\ sink = tcdb
    /\ N = 2
    /\ points[1].heart # points[2].heart

\* the tagged fields of a device header row, <<index, tag>>: those of the Power
\* Pilot, and the firmware and hardware fields of the GT
TaggedFields ==
    IF variant = "PP" THEN TagsPP
    ELSE << <<1, <<"F", "W">> >>, <<2, <<"H", "W">> >> >>

\* the text of a field before its first space
TagOf(text) == split(text, " ")[1]

\* C13 as claimed: a device header with a tagged field whose tag is not the
\* expected one fails header parsing, in both variants
C13_TagsChecked ==
    (/\ Len(read) >= 1
     /\ Len(read[1]) = (IF variant = "PP" THEN 11 ELSE 9)
     /\ \E k \in 1..Len(TaggedFields) :
           TagOf(Field(read[1], TaggedFields[k][1])) # TaggedFields[k][2])
        => FailedOnDeviceHdr

\* numeric texts the DIST field of a row could hold instead
AltDistTexts == { <<"7", ".", "5">>, <<"-", "2">> }

\* the row the reader yields in this step
NewRow == read'[Len(read')]

\* C14: the output does not depend on the DIST column.  Every step that decodes
\* a data row into a point is also the step of the same row with any other number in DIST:
\* that row is accepted too and leaves the same points, statistics and running
\* distance; the document is built from these alone, so two inputs that differ
\* only in DIST yield the same document
C14_DistIndependent ==
    [][(pc = "HeaderValidated" /\ Len(points') = Len(points) + 1)
          => \A d \in AltDistTexts :
                LET p2 == Point(Subst(NewRow, 2, d))
                IN  /\ p2.ok
                    /\ collectStats(p2.v)
                    /\ fixDistance(p2.v)
                    /\ pc' = pc]_vars

\* a document has been emitted whose last row had the raw DIST 0.1, which is not
\* the DistanceMeters emitted for it
C14_Witness ==
    /\ pc = "emitted"
    /\ N = 2
    /\ Field(DataRowAt(2), 2) = RawDists[2]
    /\ Child(Trackpoint(2), "DistanceMeters") # RatMul(RawDist(2), FromInt(1000))
    /\ Child(LapOf(sink), "DistanceMeters") = Child(Trackpoint(2), "DistanceMeters")

=============================================================================
